---- MODULE Spec2Model ----
(***************************************************************************)
(* pyvisioniq: the rate-limited polling scheduler (scheduled_update and    *)
(* fetch_and_update_metrics), the four Prometheus gauges, the CSV log and  *)
(* the read-only HTTP handlers of src/pyvisioniq.py.                       *)
(*                                                                         *)
(* Time is counted in whole seconds.  utc is the true UTC clock;           *)
(* datetime.now() is the host's naive local time, utc + tzOffset.  The     *)
(* vendor library (VehicleManager) is an external collaborator: each of    *)
(* its operations either returns or raises one of FailureKinds, and the    *)
(* vehicle state it holds is chosen from Readings x Ages.  Vendor latency  *)
(* is charged to the first call of a cycle (check_and_refresh_token).      *)
(* The scheduler thread is modelled as started (BLUELINKUPDATE = "True").  *)
(***************************************************************************)
EXTENDS Integers, Sequences, FiniteSets, TLC

VARIABLES
    APILIMIT,      \* line 48: BLUELINKLIMIT, max API requests per 24 hours
    tzOffset,      \* host local time minus UTC, in seconds (the host's TZ)
    utc,           \* the true UTC clock, in seconds
    pc,            \* position of the scheduler thread
    next_update,   \* line 159: local of scheduled_update (naive local time)
    vehicle,       \* line 74: local of fetch_and_update_metrics
    cache,         \* vm.vehicles[VEHICLE_ID]: the adapter's vehicle state
    gauges,        \* lines 63-66: the four Gauge values
    csv_file,      \* CSV_FILE: <<>> when the file does not exist, else its lines
    stderr,        \* the last line printed to sys.stderr
    response,      \* the last HTTP response sent by a Flask handler
    cyc            \* history of the current poll cycle (see NewCycle)

vars == <<APILIMIT, tzOffset, utc, pc, next_update, vehicle, cache, gauges,
          csv_file, stderr, response, cyc>>

----------------------------------------------------------------------------
(* Bounds of the model *)

MaxCycles == 2

(* Program constants *)

SecondsPerDay == 86400
SecondsPerMinute == 60

(* Inputs *)

\* BLUELINKLIMIT values: the default 30 (interval 2880 s, a whole number of
\* minutes) and 100 (interval 864 s, not a whole number of minutes)
ApiLimits == {30, 100}
\* hosts west of UTC, at UTC and east of UTC
TzOffsets == {0 - 18000, 0, 3600}
\* the thread starts on a minute boundary or 30 s past one
StartTimes == {SecondsPerDay, SecondsPerDay + 30}
\* vendor latency of a cycle: short, or longer than the 864 s interval
Durations == {2, 900}
\* one failure kind the first except clause names, one it does not
FailureKinds == {"AuthenticationError", "RuntimeError"}

\* Python's None as the value of an optional numeric field
None == 0 - 999
\* Python's None where a Vehicle object is expected
NoVehicle == [none |-> TRUE]

\* vendor readings: one without state-of-health, one without a location

Readings ==
    { [ev_battery_percentage |-> 80, odometer |-> 12000,
       ev_battery_soh_percentage |-> None, ev_driving_range |-> 250,
       location_longitude |-> 0 - 71, location_latitude |-> 42],
      [ev_battery_percentage |-> 55, odometer |-> 12040,
       ev_battery_soh_percentage |-> 97, ev_driving_range |-> 170,
       location_longitude |-> None, location_latitude |-> None] }

----------------------------------------------------------------------------
(* Pure helpers *)

\* line 69: timedelta(seconds=86400 // APILIMIT)
interval_between_requests == SecondsPerDay \div APILIMIT

\* datetime.now(): naive local wall-clock time
LocalNow == utc + tzOffset

\* line 159: .replace(second=0, microsecond=0)
TruncateToMinute(t) == t - (t % SecondsPerMinute)

\* line 105: (datetime.now() - interval).replace(tzinfo=timezone.utc); the
\* naive local reading is labelled UTC, not converted to it
last_updated_threshold == LocalNow - interval_between_requests

\* line 107: vehicle is None or vehicle.last_updated_at < last_updated_threshold
NeedsForceRefresh(v) ==
    \/ v = NoVehicle
    \/ v.last_updated_at < last_updated_threshold

\* battery_health without the fallback of line 120
battery_health_unguarded(v) == v.ev_battery_soh_percentage

\* line 120: soh if soh else 0 (None and 0 are both falsy)
battery_health(v) ==
    IF v.ev_battery_soh_percentage = None \/ v.ev_battery_soh_percentage = 0
    THEN 0
    ELSE v.ev_battery_soh_percentage

\* lines 131-139: the one-row DataFrame
data_to_log(v) ==
    [kind |-> "row",
     Timestamp |-> LocalNow,
     ChargingLevel |-> v.ev_battery_percentage,
     Mileage |-> v.odometer,
     BatteryHealth |-> battery_health(v),
     EVDrivingRange |-> v.ev_driving_range,
     Longitude |-> v.location_longitude,
     Latitude |-> v.location_latitude]

\* to_csv(header=True): the line of column names
Header ==
    [kind |-> "header",
     columns |-> <<"Timestamp", "Charging Level", "Mileage", "Battery Health",
                   "EV Driving Range", "Longitude", "Latitude">>]

\* line 142: os.path.exists(CSV_FILE)
path_exists == Len(csv_file) > 0

\* number of data rows in the file (what pd.read_csv returns)
DataRows == IF path_exists THEN Len(csv_file) - 1 ELSE 0

\* to_csv in append mode without header=False
to_csv_header_repeated(row) ==
    IF ~path_exists THEN <<Header, row>>
    ELSE Append(Append(csv_file, Header), row)

\* lines 142-145: to_csv with the header when the file is new, else mode='a'
to_csv(row) ==
    IF ~path_exists THEN <<Header, row>> ELSE Append(csv_file, row)

\* line 162: max(0, sleep_duration)
sleep_duration == next_update - LocalNow
SleepTime == IF sleep_duration > 0 THEN sleep_duration ELSE 0

\* lines 81-92: the failure kinds the first except clause names
RecognizedErrors ==
    {"KeyError", "ConnectionError", "AuthenticationError", "APIError",
     "RateLimitingError", "NoDataFound", "ServiceTemporaryUnavailable",
     "DuplicateRequestError", "RequestTimeoutError", "InvalidAPIResponseError"}

\* lines 81-95: which except clause logs the failure
ErrorLine(kind) ==
    IF kind \in RecognizedErrors
    THEN "Hyundai/Kia API error"
    ELSE "Unexpected error"

\* vehicle states the vendor can report at the current instant
Ages == {10, interval_between_requests + 100}
VendorStates ==
    { rd @@ ("last_updated_at" :> (utc - a)) : rd \in Readings, a \in Ages }

\* get_vehicle(vehicle_id) -> VehicleState | absent
GetVehicleResults == {cache, NoVehicle}

NoResponse == [kind |-> "none"]

\* history of one poll cycle, reset when the loop starts an iteration
NewCycle(n, prev, obtained) ==
    [n |-> n, start |-> utc, prev_start |-> prev, obtained |-> obtained,
     rows0 |-> DataRows, gauges0 |-> gauges,
     failed |-> FALSE, try_failed |-> FALSE,
     cached |-> NoVehicle, force_calls |-> 0, rereads |-> 0]

----------------------------------------------------------------------------
Init ==
    /\ APILIMIT \in ApiLimits
    /\ tzOffset \in TzOffsets
    /\ utc \in StartTimes
    /\ pc = "loop"
    /\ next_update = 0
    /\ vehicle = NoVehicle
    /\ cache = NoVehicle
    /\ gauges = [charging_level |-> 0, mileage |-> 0,
                 battery_health |-> 0, ev_driving_range |-> 0]
    /\ csv_file = <<>>
    /\ stderr = ""
    /\ response = NoResponse
    /\ cyc = [n |-> 0, start |-> 0, prev_start |-> 0, obtained |-> 0,
              rows0 |-> 0, gauges0 |-> gauges,
              failed |-> FALSE, try_failed |-> FALSE,
              cached |-> NoVehicle, force_calls |-> 0, rereads |-> 0]

----------------------------------------------------------------------------
(* The scheduler thread: scheduled_update and fetch_and_update_metrics *)

\* an except clause that returns from fetch_and_update_metrics
ExceptHandler_returning(kind) ==
    /\ stderr' = ErrorLine(kind)
    /\ vehicle' = NoVehicle
    /\ cyc' = [cyc EXCEPT !.failed = TRUE, !.try_failed = TRUE]
    /\ pc' = "sleep"

\* lines 81-95: a failure inside the try block is logged and swallowed;
\* vehicle keeps the None of line 74
ExceptHandler(kind) ==
    /\ stderr' = ErrorLine(kind)
    /\ vehicle' = NoVehicle
    /\ cyc' = [cyc EXCEPT !.failed = TRUE, !.try_failed = TRUE]
    /\ pc' = "check"

\* lines 109-110 are outside any try, and scheduled_update has none either:
\* the exception unwinds the thread's target function and the thread ends
Propagate(kind) ==
    /\ stderr' = kind
    /\ pc' = "crashed"

\* lines 158-160 and 74: one loop iteration begins
scheduled_update_begin ==
    /\ pc = "loop"
    /\ cyc.n < MaxCycles
    /\ next_update' = TruncateToMinute(LocalNow + interval_between_requests)
    /\ vehicle' = NoVehicle
    /\ cyc' = NewCycle(cyc.n + 1, cyc.start, cyc.obtained)
    /\ pc' = "token"
    /\ UNCHANGED <<APILIMIT, tzOffset, utc, cache, gauges, csv_file, stderr,
                   response>>

\* line 77: vm.check_and_refresh_token()
check_and_refresh_token ==
    /\ pc = "token"
    /\ \E d \in Durations : utc' = utc + d
    /\ \/ /\ pc' = "update"
          /\ UNCHANGED <<vehicle, stderr, cyc>>
       \/ \E kind \in FailureKinds : ExceptHandler(kind)
    /\ UNCHANGED <<APILIMIT, tzOffset, next_update, cache, gauges, csv_file,
                   response>>

\* line 79: vm.update_vehicle_with_cached_state(VEHICLE_ID)
update_vehicle_with_cached_state ==
    /\ pc = "update"
    /\ \/ /\ cache' \in VendorStates
          /\ pc' = "get"
          /\ UNCHANGED <<vehicle, stderr, cyc>>
       \/ /\ \E kind \in FailureKinds : ExceptHandler(kind)
          /\ UNCHANGED cache
    /\ UNCHANGED <<APILIMIT, tzOffset, utc, next_update, gauges, csv_file,
                   response>>

\* line 80: vehicle = vm.get_vehicle(VEHICLE_ID), inside the try
get_vehicle_cached ==
    /\ pc = "get"
    /\ \/ /\ vehicle' \in GetVehicleResults
          /\ cyc' = [cyc EXCEPT !.cached = vehicle']
          /\ pc' = "check"
          /\ UNCHANGED stderr
       \/ \E kind \in FailureKinds : ExceptHandler(kind)
    /\ UNCHANGED <<APILIMIT, tzOffset, utc, next_update, cache, gauges,
                   csv_file, response>>

\* lines 105-108: the staleness check
staleness_check ==
    /\ pc = "check"
    /\ IF NeedsForceRefresh(vehicle)
       THEN /\ stderr' = "Cached data is stale, force refreshing..."
            /\ pc' = "force"
       ELSE /\ pc' = "none_check"
            /\ UNCHANGED stderr
    /\ UNCHANGED <<APILIMIT, tzOffset, utc, next_update, vehicle, cache,
                   gauges, csv_file, response, cyc>>

\* line 109: vm.force_refresh_vehicle_state(VEHICLE_ID); on success the
\* adapter holds a newly reported state or, when the vendor accepted the
\* request without delivering data, what it held before
force_refresh_vehicle_state ==
    /\ pc = "force"
    /\ \/ /\ cache' \in VendorStates \cup {cache}
          /\ cyc' = [cyc EXCEPT !.force_calls = @ + 1]
          /\ pc' = "reread"
          /\ UNCHANGED stderr
       \/ /\ \E kind \in FailureKinds : Propagate(kind)
          /\ cyc' = [cyc EXCEPT !.force_calls = @ + 1, !.failed = TRUE]
          /\ UNCHANGED cache
    /\ UNCHANGED <<APILIMIT, tzOffset, utc, next_update, vehicle, gauges,
                   csv_file, response>>

\* line 110: vehicle = vm.get_vehicle(VEHICLE_ID), outside the try
get_vehicle_refreshed ==
    /\ pc = "reread"
    /\ \/ /\ vehicle' \in GetVehicleResults
          /\ cyc' = [cyc EXCEPT !.rereads = @ + 1]
          /\ pc' = "none_check"
          /\ UNCHANGED stderr
       \/ /\ \E kind \in FailureKinds : Propagate(kind)
          /\ cyc' = [cyc EXCEPT !.rereads = @ + 1, !.failed = TRUE]
          /\ UNCHANGED vehicle
    /\ UNCHANGED <<APILIMIT, tzOffset, utc, next_update, cache, gauges,
                   csv_file, response>>

\* a skip that zeroes the gauges before returning
skip_update_zeroing ==
    /\ pc = "none_check"
    /\ vehicle = NoVehicle
    /\ stderr' = "Vehicle data not available after refresh. Skipping update."
    /\ gauges' = [charging_level |-> 0, mileage |-> 0,
                  battery_health |-> 0, ev_driving_range |-> 0]
    /\ pc' = "sleep"
    /\ UNCHANGED <<APILIMIT, tzOffset, utc, next_update, vehicle, cache,
                   csv_file, response, cyc>>

\* lines 112-114: no vehicle after the refresh, return early
skip_update ==
    /\ pc = "none_check"
    /\ vehicle = NoVehicle
    /\ stderr' = "Vehicle data not available after refresh. Skipping update."
    /\ pc' = "sleep"
    /\ UNCHANGED <<APILIMIT, tzOffset, utc, next_update, vehicle, cache,
                   gauges, csv_file, response, cyc>>

\* lines 116-123: 'Updating...' and the reads of the vehicle's fields
begin_update ==
    /\ pc = "none_check"
    /\ vehicle # NoVehicle
    /\ stderr' = "Updating..."
    /\ cyc' = [cyc EXCEPT !.obtained = @ + 1]
    /\ pc' = "set_charging_level"
    /\ UNCHANGED <<APILIMIT, tzOffset, utc, next_update, vehicle, cache,
                   gauges, csv_file, response>>

\* line 126: charging_level_gauge.set(charging_level)
set_charging_level ==
    /\ pc = "set_charging_level"
    /\ gauges' = [gauges EXCEPT !.charging_level = vehicle.ev_battery_percentage]
    /\ pc' = "set_mileage"
    /\ UNCHANGED <<APILIMIT, tzOffset, utc, next_update, vehicle, cache,
                   csv_file, stderr, response, cyc>>

\* line 127: mileage_gauge.set(mileage)
set_mileage ==
    /\ pc = "set_mileage"
    /\ gauges' = [gauges EXCEPT !.mileage = vehicle.odometer]
    /\ pc' = "set_battery_health"
    /\ UNCHANGED <<APILIMIT, tzOffset, utc, next_update, vehicle, cache,
                   csv_file, stderr, response, cyc>>

\* line 128: battery_health_gauge.set(battery_health)
set_battery_health ==
    /\ pc = "set_battery_health"
    /\ gauges' = [gauges EXCEPT !.battery_health = battery_health(vehicle)]
    /\ pc' = "set_ev_driving_range"
    /\ UNCHANGED <<APILIMIT, tzOffset, utc, next_update, vehicle, cache,
                   csv_file, stderr, response, cyc>>

\* the row is written without the driving-range gauge having been set
set_ev_driving_range_omitted ==
    /\ pc = "set_ev_driving_range"
    /\ pc' = "to_csv"
    /\ UNCHANGED <<APILIMIT, tzOffset, utc, next_update, vehicle, cache,
                   gauges, csv_file, stderr, response, cyc>>

\* line 129: ev_driving_range_gauge.set(ev_driving_range)
set_ev_driving_range ==
    /\ pc = "set_ev_driving_range"
    /\ gauges' = [gauges EXCEPT !.ev_driving_range = vehicle.ev_driving_range]
    /\ pc' = "to_csv"
    /\ UNCHANGED <<APILIMIT, tzOffset, utc, next_update, vehicle, cache,
                   csv_file, stderr, response, cyc>>

\* lines 131-152: build the row, write it, print the summary line, return
write_csv ==
    /\ pc = "to_csv"
    /\ csv_file' = to_csv(data_to_log(vehicle))
    /\ stderr' = "Sample"
    /\ pc' = "sleep"
    /\ UNCHANGED <<APILIMIT, tzOffset, utc, next_update, vehicle, cache,
                   gauges, response, cyc>>

\* lines 161-162: time.sleep(max(0, sleep_duration)), then loop
sleep_until_next ==
    /\ pc = "sleep"
    /\ utc' = utc + SleepTime
    /\ pc' = "loop"
    /\ UNCHANGED <<APILIMIT, tzOffset, next_update, vehicle, cache, gauges,
                   csv_file, stderr, response, cyc>>

----------------------------------------------------------------------------
(* The Flask request handlers: they read, and write nothing *)

\* the series rangeplot draws: (Timestamp, EV Driving Range) per data row
RangeSeries ==
    [i \in 1..(Len(csv_file) - 1) |->
        <<csv_file[i + 1].Timestamp, csv_file[i + 1].EVDrivingRange>>]

\* lines 289-292: generate_latest() over the four gauges
metrics ==
    /\ response' = [kind |-> "metrics", body |-> gauges]
    /\ UNCHANGED <<APILIMIT, tzOffset, utc, pc, next_update, vehicle, cache,
                   gauges, csv_file, stderr, cyc>>

\* lines 164-190, 274-279, 304-307: /range.png reads the whole CSV
endpointrange ==
    /\ response' = IF path_exists
                   THEN [kind |-> "range.png", body |-> RangeSeries]
                   ELSE [kind |-> "error", body |-> "FileNotFoundError"]
    /\ UNCHANGED <<APILIMIT, tzOffset, utc, pc, next_update, vehicle, cache,
                   gauges, csv_file, stderr, cyc>>

----------------------------------------------------------------------------
Next ==
    \/ scheduled_update_begin
    \/ check_and_refresh_token
    \/ update_vehicle_with_cached_state
    \/ get_vehicle_cached
    \/ staleness_check
    \/ force_refresh_vehicle_state
    \/ get_vehicle_refreshed
    \/ skip_update
    \/ begin_update
    \/ set_charging_level
    \/ set_mileage
    \/ set_battery_health
    \/ set_ev_driving_range
    \/ write_csv
    \/ sleep_until_next
    \/ metrics
    \/ endpointrange

Spec == Init /\ [][Next]_vars

----------------------------------------------------------------------------
(* Vocabulary of the properties *)

\* the scheduler is inside fetch_and_update_metrics or has just left it, and
\* the clock still reads what the staleness check read
AfterDecision ==
    {"reread", "none_check", "set_charging_level", "set_mileage",
     "set_battery_health", "set_ev_driving_range", "to_csv", "sleep", "crashed"}

\* at least one gauge of the current cycle has been set
Publishing ==
    {"set_mileage", "set_battery_health", "set_ev_driving_range", "to_csv"}

\* fetch_and_update_metrics has returned normally in the current cycle
Returned == cyc.n > 0 /\ pc \in {"sleep", "loop"}

\* the current cycle has appended its row
RowWritten == DataRows = cyc.rows0 + 1

LastRow == csv_file[Len(csv_file)]

\* older than one interval, as UTC instants
OlderThanInterval(v) == v.last_updated_at < utc - interval_between_requests
NewerThanInterval(v) == v.last_updated_at > utc - interval_between_requests

GaugesMatch(row) ==
    /\ gauges.charging_level = row.ChargingLevel
    /\ gauges.mileage = row.Mileage
    /\ gauges.battery_health = row.BatteryHealth
    /\ gauges.ev_driving_range = row.EVDrivingRange

IsPrefix(a, b) ==
    /\ Len(a) <= Len(b)
    /\ \A i \in 1..Len(a) : a[i] = b[i]

----------------------------------------------------------------------------
\* C1: a failure raised by an adapter operation in a poll cycle never stops
\* the scheduler loop, and the failing cycle writes no Sample.
C1_PollingFailureNeverStopsScheduler ==
    cyc.failed => (pc # "crashed" /\ ~RowWritten)

\* C2: a cycle appends exactly one row when it ends with a vehicle state in
\* hand and none otherwise; a cycle that ends without one (vehicle absent
\* after the forced refresh, or the cycle failed) leaves the row count and
\* the four gauges as they were when it began.
C2_SampleIffVehicleObtained ==
    /\ DataRows \in {cyc.rows0, cyc.rows0 + 1}
    /\ Returned => (RowWritten <=> vehicle # NoVehicle)
    /\ (Returned /\ vehicle = NoVehicle) \/ pc = "crashed"
          => (DataRows = cyc.rows0 /\ gauges = cyc.gauges0)

C2_Witness ==
    /\ pc = "sleep"
    /\ vehicle = NoVehicle
    /\ cyc.rows0 = 1
    /\ gauges.mileage > 0

\* C3: consecutive fetch_and_update_metrics invocations of the loop are at
\* least 86400/N seconds apart (so that no 24-hour window holds more than N).
C3_FetchesAtLeastOneIntervalApart ==
    cyc.n >= 2 => (cyc.start - cyc.prev_start) * APILIMIT >= SecondsPerDay

\* C4: when the cached read returned a vehicle state older than now - interval
\* (UTC), the forced refresh has been invoked exactly once before any gauge is
\* set or any row appended, whatever the host's offset from UTC.
C4_StaleCacheForcesOneRefresh ==
    (/\ pc \in AfterDecision
     /\ cyc.cached # NoVehicle
     /\ OlderThanInterval(cyc.cached))
        => cyc.force_calls = 1

\* C5: when the cached read returned a vehicle state newer than now - interval
\* (UTC), the forced refresh is not invoked in that cycle, whatever the host's
\* offset from UTC.
C5_FreshCacheNoForcedRefresh ==
    (/\ pc \in AfterDecision \cup {"force"}
     /\ cyc.cached # NoVehicle
     /\ NewerThanInterval(cyc.cached))
        => (pc # "force" /\ cyc.force_calls = 0)

\* C6: nothing is published or logged from a vehicle state older than one
\* interval before the cycle's now.
C6_NoSampleOlderThanInterval ==
    (pc \in Publishing \/ (pc = "sleep" /\ RowWritten))
        => ~OlderThanInterval(vehicle)

\* C7: the file is one header line followed by exactly one data row per cycle
\* that obtained a vehicle state, and every step leaves the lines already
\* written in place (the file only grows at its end).
C7_LogShape ==
    /\ path_exists =>
          /\ csv_file[1] = Header
          /\ \A i \in 2..Len(csv_file) : csv_file[i].kind = "row"
          /\ \A i, j \in 2..Len(csv_file) :
                i < j => csv_file[i].Timestamp <= csv_file[j].Timestamp
    /\ Returned => DataRows = cyc.obtained
    /\ cyc.obtained >= 1 /\ Returned => Len(csv_file) = 1 + cyc.obtained

C7_LogAppendOnlyOneHeader ==
    []C7_LogShape /\ [][IsPrefix(csv_file, csv_file')]_vars

C7_Witness ==
    /\ Returned
    /\ cyc.obtained = 2
    /\ Len(csv_file) = 3

\* C8: with the state-of-health value absent the cycle completes as a
\* successful poll: the row's Battery Health and the battery-health gauge are
\* 0, and the other fields are logged and published as reported.
C8_AbsentHealthIsZero ==
    (/\ Returned
     /\ vehicle # NoVehicle
     /\ vehicle.ev_battery_soh_percentage = None)
        => /\ RowWritten
           /\ LastRow.BatteryHealth = 0
           /\ gauges.battery_health = 0
           /\ LastRow.ChargingLevel = vehicle.ev_battery_percentage
           /\ LastRow.Mileage = vehicle.odometer
           /\ LastRow.EVDrivingRange = vehicle.ev_driving_range
           /\ LastRow.Longitude = vehicle.location_longitude
           /\ LastRow.Latitude = vehicle.location_latitude
           /\ gauges.charging_level = vehicle.ev_battery_percentage
           /\ gauges.mileage = vehicle.odometer
           /\ gauges.ev_driving_range = vehicle.ev_driving_range

C8_Witness ==
    /\ pc = "sleep"
    /\ vehicle # NoVehicle
    /\ vehicle.ev_battery_soh_percentage = None
    /\ RowWritten

C10_GaugesCoverLastRow ==
    path_exists => (GaugesMatch(LastRow) \/ pc \in Publishing)

C10_PublishBeforeLog ==
    /\ []C10_GaugesCoverLastRow
    /\ [][csv_file' # csv_file =>
            /\ gauges' = gauges
            /\ GaugesMatch(csv_file'[Len(csv_file')])]_vars
    /\ [][response' # response =>
            (gauges' = gauges /\ csv_file' = csv_file /\ pc' = pc)]_vars

C10_Witness ==
    /\ pc = "to_csv"
    /\ path_exists
    /\ ~GaugesMatch(LastRow)
    /\ response.kind = "metrics"
    /\ response.body = gauges

====
